---- MODULE Spec2Model ----
(***************************************************************************)
(* Catalog audit of data.gov.ua (HT_1/Analyzer/Analyzer.py and             *)
(* HT_1/data_gov_ua_dataset_audit_no_cli.py): the retrying JSON calls, the *)
(* byte-bounded downloader, the streaming delimited-text counter, the      *)
(* workbook and archive counters, the per-resource fallback chain of       *)
(* DatasetAuditor.audit_dataset, the catalog traversal of CKANClient and   *)
(* the package loop of the zero-argument script.                           *)
(*                                                                         *)
(* Every component is a state machine over its own variables; each         *)
(* specification runs one component while the variables of the others stay *)
(* at their idle values.                                                   *)
(***************************************************************************)
EXTENDS Integers, Sequences, FiniteSets, TLC

VARIABLES
    \* ---- DatasetAuditor (configuration, then audit_dataset's locals) ----
    csv_counter,     \* self.csv_counter is configured (truthy)
    xlsx_counter,    \* self.xlsx_counter is configured
    zip_counter,     \* self.zip_counter is configured
    large_reporter,  \* self.large_reporter is configured
    cur,             \* number of resources the for loop has taken so far;
                     \* len(ds.resources) once the loop is over
    res,             \* the loop variable: the resource being processed
    apc,             \* position inside audit_dataset
    counts,          \* the list of contributing counts
    cl,              \* content length returned by the size probe
    used,            \* the fallback chain's flag
    large,           \* rows appended to the large-resource report
    calls,           \* calls made for the current resource, in order
    metrics,         \* the DatasetMetrics returned (None while running)
    hresp,           \* head_content_length's local r: what requests.head came
                     \* to, while the probe's result is being looked at
    fault,           \* what went wrong in the last call made for the resource
    run,             \* 0: a single audit; 1, 2: first and second audit of
                     \* the same descriptor
    tape,            \* first audit: the resources and the environment's answers
    metrics1,        \* the DatasetMetrics the first audit returned
    \* ---- one logical JSON call (_get_json / get_rows_cols) ----
    jfn,             \* which function runs
    retries,         \* self.retries
    jpc,             \* position inside the call
    attempt,         \* iterations of the for loop started so far
    backoff,         \* the local backoff, in units of 0.5 s
    slept,           \* total time slept, in units of 0.5 s
    outcomes,        \* what each HTTP request of this call came to
    jresult,         \* the value returned (None while running)
    escaped,         \* an exception left the function
    \* ---- HttpUtil.download_to_tempfile ----
    dmax,            \* max_bytes
    dchunk,          \* chunk_size
    dbody,           \* length of the response body
    dsent,           \* bytes of the body delivered so far
    dpc,             \* position inside the function
    dtotal,          \* the local total
    dfile,           \* the temporary file: None, or its size on disk
    dresult,         \* "running", "path" or "none"
    \* ---- CsvRowCounter.count_rows ----
    curl,            \* the url argument
    cmax,            \* self.max_bytes
    cchunk,          \* self.chunk_size
    cbody,           \* the response body, a sequence of bytes
    csent,           \* bytes of the body delivered so far
    cpc,             \* position inside the function
    ccl,             \* the local cl (HEAD content length)
    bytes_read,      \* the local bytes_read
    lines,           \* the local lines
    tail_newline,    \* the local tail_newline
    cgets,           \* GET requests issued for the body
    cheads,          \* HEAD requests issued
    cresult,         \* the value returned (None while running)
    \* ---- XlsxRowCounter.count_rows / ZipRowCounter.count_rows ----
    file,            \* the state of the call (a record, see that section)
    \* ---- CKANClient.iter_datasets / iter_datasets_via_list ----
    iter,            \* the state of the traversal (a record, see that section)
    \* ---- the zero-argument script ----
    script           \* the state of the run (a record, see that section)

auditVars == <<csv_counter, xlsx_counter, zip_counter, large_reporter,
               cur, res, apc, counts, cl, used, large, calls, metrics,
               hresp, fault, run, tape, metrics1>>
jsonVars == <<jfn, retries, jpc, attempt, backoff, slept, outcomes, jresult, escaped>>
dlVars == <<dmax, dchunk, dbody, dsent, dpc, dtotal, dfile, dresult>>
csvVars == <<curl, cmax, cchunk, cbody, csent, cpc, ccl, bytes_read, lines,
             tail_newline, cgets, cheads, cresult>>
fileVars == <<file>>
iterVars == <<iter>>
scriptVars == <<script>>
vars == <<auditVars, jsonVars, dlVars, csvVars, fileVars, iterVars, scriptVars>>
notAudit == <<jsonVars, dlVars, csvVars, fileVars, iterVars, scriptVars>>
notJson == <<auditVars, dlVars, csvVars, fileVars, iterVars, scriptVars>>
notDl == <<auditVars, jsonVars, csvVars, fileVars, iterVars, scriptVars>>
notCsv == <<auditVars, jsonVars, dlVars, fileVars, iterVars, scriptVars>>
notFile == <<auditVars, jsonVars, dlVars, csvVars, iterVars, scriptVars>>
notIter == <<auditVars, jsonVars, dlVars, csvVars, fileVars, scriptVars>>
notScript == <<auditVars, jsonVars, dlVars, csvVars, fileVars, iterVars>>

(***************************************************************************)
(* Python values                                                           *)
(***************************************************************************)
\* Optional[T]: None is the empty sequence, a value v is <<v>>.
None == <<>>
Some(v) == <<v>>
Val(o) == o[1]
OptionalOf(S) == {None} \cup {Some(v) : v \in S}

\* Variant: a zero count is taken as a usable count (>= in place of >).
IsPositiveInt_or_zero(c) == c # None /\ Val(c) >= 0

\* isinstance(c, int) and c > 0
IsPositiveInt(c) == c # None /\ Val(c) > 0

\* max(counts) for a non-empty list
RECURSIVE max(_)
max(s) == IF Len(s) = 1 THEN s[1]
          ELSE LET m == max(Tail(s)) IN IF s[1] >= m THEN s[1] ELSE m

(***************************************************************************)
(* URLs and format tags.  A URL is a sequence of tokens: a name, an        *)
(* extension (".csv", ".CSV", ...) or the "?" that starts the query.       *)
(***************************************************************************)
NoUrl == <<>>
NoFormat == ""

lowerTok(t) == CASE t = ".CSV" -> ".csv"
                 [] t = ".XLSX" -> ".xlsx"
                 [] t = ".ZIP" -> ".zip"
                 [] t = "XLSX" -> "xlsx"
                 [] t = "ZIP" -> "zip"
                 [] OTHER -> t
\* str.lower()
lower(u) == [k \in 1..Len(u) |-> lowerTok(u[k])]
\* str.endswith(ext)
endswith(u, ext) == Len(u) > 0 /\ u[Len(u)] = ext
\* u.split("?", 1)[0] when "?" in u, else u
RECURSIVE beforeQuery(_)
beforeQuery(u) == IF u = <<>> \/ u[1] = "?" THEN <<>>
                  ELSE <<u[1]>> \o beforeQuery(Tail(u))

is_csv_url(url) ==
    IF url = NoUrl THEN FALSE
    ELSE endswith(lower(url), ".csv")

is_xlsx_url(url, fmt) ==
    IF fmt # NoFormat /\ lowerTok(fmt) \in {"xlsx", "excel"} THEN TRUE
    ELSE IF url = NoUrl THEN FALSE
    ELSE endswith(beforeQuery(lower(url)), ".xlsx")

is_zip_url(url, fmt) ==
    IF fmt # NoFormat /\ lowerTok(fmt) = "zip" THEN TRUE
    ELSE IF url = NoUrl THEN FALSE
    ELSE endswith(beforeQuery(lower(url)), ".zip")

(***************************************************************************)
(* DatasetAuditor.audit_dataset.  The resources of the dataset are taken   *)
(* one at a time as the for loop reaches them; the list ends after at most *)
(* MaxRes resources.  calls logs, for the resource being processed, every  *)
(* call made for it with the value it returned (for counts.append, the     *)
(* value appended).                                                        *)
(***************************************************************************)
MaxRes == 2        \* resources per dataset
MaxRows == 2       \* largest row count a counter or the datastore reports
large_threshold == 536870912

Urls == {NoUrl, <<"f", ".csv">>, <<"f", ".xlsx">>, <<"f", ".zip">>}
Formats == {NoFormat, "zip"}
NoId == ""
Resources == [id : {NoId, "r1"}, url : Urls, datastore_active : BOOLEAN,
              format : Formats]
NoRes == [id |-> NoId, url |-> NoUrl, datastore_active |-> FALSE, format |-> NoFormat]

\* What DataStoreClient.get_rows_cols can return to the auditor.
DatastoreOutcomes == {None} \cup {Some([rows |-> r, cols |-> 1]) : r \in 0..MaxRows}

\* ---- HttpUtil.head_content_length ----
\* A header value is a string, written as the sequence of its characters.
Digits == <<"0", "1", "2", "3", "4", "5", "6", "7", "8", "9">>
digit(c) == (CHOOSE i \in 1..Len(Digits) : Digits[i] = c) - 1
\* cl.isdigit(): not empty, and every character is a digit
isdigit(s) == s # <<>> /\ \A i \in 1..Len(s) : \E j \in 1..Len(Digits) : Digits[j] = s[i]
\* int(cl) of a string of digits
RECURSIVE int(_)
int(s) == IF s = <<>> THEN 0
          ELSE 10 * int(SubSeq(s, 1, Len(s) - 1)) + digit(s[Len(s)])

\* The Content-Length header of a response: None when it is missing.
HeaderTexts == {<<"1", "a">>,
                <<"5", "3", "6", "8", "7", "0", "9", "1", "1">>,
                <<"5", "3", "6", "8", "7", "0", "9", "1", "2">>}
Statuses == {200, 204, 404}
\* What requests.head comes to: None when it raises, else the response.
HeadResponses == OptionalOf([status_code : Statuses,
                             content_length : OptionalOf(HeaderTexts)])

\* Variant: the status of the response is not looked at.
head_content_length_any_status(r) ==
    IF r = None THEN None
    ELSE LET h == Val(r).content_length IN
         IF h # None /\ Val(h) # <<>> /\ isdigit(Val(h))
         THEN Some(int(Val(h)))
         ELSE None

\* head_content_length, as a function of what requests.head comes to
head_content_length(r) ==
    IF r = None THEN None                        \* except Exception: return None
    ELSE IF Val(r).status_code \div 100 = 2
         THEN LET h == Val(r).content_length IN  \* r.headers.get("Content-Length")
              IF h # None /\ Val(h) # <<>> /\ isdigit(Val(h))
              THEN Some(int(Val(h)))
              ELSE None
         ELSE None

\* What HttpUtil.head_content_length can return to the auditor.
HeadOutcomes == {head_content_length(r) : r \in HeadResponses}

\* What the three counters can return to the auditor for a resource.
CsvOutcomes(url) == IF is_csv_url(url) THEN OptionalOf(0..MaxRows) ELSE {None}
XlsxOutcomes(url, fmt) == IF is_xlsx_url(url, fmt) THEN OptionalOf(0..MaxRows) ELSE {None}
ZipOutcomes(url, fmt) == IF is_zip_url(url, fmt) THEN OptionalOf(1..MaxRows) ELSE {None}

\* ---- what can go wrong inside a call the auditor makes ----
\*   network   requests raises (timeout, connection error, broken stream)
\*   status    the response has a status that is not 2xx (not 200 for the
\*             tabular query)
\*   payload   the payload is malformed: no JSON, no success, no total, no
\*             numeric Content-Length
\*   oversize  the content is larger than the callee's byte cap
\*   parse     the downloaded file cannot be parsed, or openpyxl is missing
NoFault == "none"
CallFaults(fn) ==
    CASE fn = "get_rows_cols" -> {"network", "status", "payload"}
      [] fn = "head_content_length" -> {"network", "status", "payload"}
      [] fn = "csv.count_rows" -> {"network", "status", "oversize"}
      [] fn = "xlsx.count_rows" -> {"network", "status", "oversize", "parse"}
      [] fn = "zip.count_rows" -> {"network", "status", "oversize", "parse"}

\* The failure shows as a Python exception inside the callee.
Raises(fn, f) ==
    CASE f = "network" -> TRUE                  \* requests.get / requests.head
      [] f = "status" ->                        \* r.raise_for_status()
            fn \in {"csv.count_rows", "xlsx.count_rows", "zip.count_rows"}
      [] f = "payload" -> fn = "get_rows_cols"  \* r.json(), data.get
      [] f = "parse" -> TRUE                    \* import openpyxl, load_workbook, ZipFile
      [] f = "oversize" -> FALSE                \* return None
      [] OTHER -> FALSE

\* Variant: only the request itself is inside a try block.
Caught_network_only(fn, f) == f = "network"

\* The statement that raises is inside a try ... except Exception of the callee.
Caught(fn, f) ==
    <<fn, f>> \in {<<"get_rows_cols", "network">>,        \* lines 158-170
                   <<"get_rows_cols", "payload">>,        \* lines 158-170
                   <<"head_content_length", "network">>,  \* lines 181-188
                   <<"csv.count_rows", "network">>,       \* lines 240-251
                   <<"csv.count_rows", "status">>,        \* lines 240-251
                   <<"xlsx.count_rows", "network">>,      \* lines 199-216
                   <<"xlsx.count_rows", "status">>,       \* lines 199-216
                   <<"xlsx.count_rows", "parse">>,        \* lines 275-292
                   <<"zip.count_rows", "network">>,       \* lines 199-216
                   <<"zip.count_rows", "status">>,        \* lines 199-216
                   <<"zip.count_rows", "parse">>}         \* lines 349-363

\* the exception leaves the callee and, audit_dataset having no try, the audit
Escapes(fn, f) == f # NoFault /\ Raises(fn, f) /\ ~Caught(fn, f)

\* What went wrong, if anything, for a response of requests.head.
HeadFault(r) ==
    IF r = None THEN "network"
    ELSE IF Val(r).status_code \notin 200..299 THEN "status"
    ELSE IF Val(r).content_length = None \/ ~isdigit(Val(Val(r).content_length))
         THEN "payload"
    ELSE NoFault

\* The pairs <<fault, returned value>> of a call.  A fault needs the callee to
\* have gone to the network (applicable) and makes it return None; without a
\* fault an applicable callee returns a value, except a callee that also
\* returns None for content it finds nothing to count in (quiet).
Answers(fn, outs, applicable, quiet) ==
    {a \in ({NoFault} \cup CallFaults(fn)) \X outs :
        /\ a[1] # NoFault => (applicable /\ a[2] = None)
        /\ (a[1] = NoFault /\ applicable /\ ~quiet) => a[2] # None}
DatastoreAnswers == Answers("get_rows_cols", DatastoreOutcomes, TRUE, FALSE)
CsvAnswers(url) == Answers("csv.count_rows", CsvOutcomes(url), is_csv_url(url), FALSE)
XlsxAnswers(url, fmt) ==
    Answers("xlsx.count_rows", XlsxOutcomes(url, fmt), is_xlsx_url(url, fmt), FALSE)
ZipAnswers(url, fmt) ==
    Answers("zip.count_rows", ZipOutcomes(url, fmt), is_zip_url(url, fmt), TRUE)

Call(fn, ret) == [fn |-> fn, ret |-> ret]
NoResponse == <<>>

\* ---- auditing the same descriptor twice ----
\* run is 0 for a single audit, 1 and 2 for the first and the second audit of
\* one descriptor; tape holds, per resource of the first audit, the resource
\* and what the environment answered to each call made for it.
MaxResTwice == 1   \* resources per dataset when it is audited twice
\* the resources of a dataset that is audited twice
TwiceResources == {r \in Resources : r.id # NoId /\ r.format = NoFormat}
ResLimit == IF run = 0 THEN MaxRes ELSE MaxResTwice
Taped(fn, a) ==
    IF run = 1
    THEN [tape EXCEPT ![cur].answers = Append(@, [fn |-> fn, ans |-> a])]
    ELSE tape
\* what the environment may answer to fn: in the second audit, what it
\* answered to the same call in the first
Env(fn, S) ==
    IF run = 2 /\ \E k \in 1..Len(tape[cur].answers) : tape[cur].answers[k].fn = fn
    THEN {tape[cur].answers[k].ans :
             k \in {j \in 1..Len(tape[cur].answers) : tape[cur].answers[j].fn = fn}}
    ELSE S

AuditInit ==
    /\ csv_counter \in BOOLEAN
    /\ xlsx_counter \in BOOLEAN
    /\ zip_counter \in BOOLEAN
    /\ large_reporter \in BOOLEAN
    /\ cur = 0
    /\ res = NoRes
    /\ apc = "for"
    /\ counts = <<>>
    /\ cl = None
    /\ used = FALSE
    /\ large = <<>>
    /\ calls = <<>>
    /\ metrics = None
    /\ hresp = NoResponse
    /\ fault = NoFault
    /\ run = 0
    /\ tape = <<>>
    /\ metrics1 = None

\* main(): the auditor is built with the three counters and the reporter, and
\* the same descriptor is audited twice
AuditInitTwice ==
    /\ csv_counter = TRUE
    /\ xlsx_counter = TRUE
    /\ zip_counter = TRUE
    /\ large_reporter = TRUE
    /\ cur = 0
    /\ res = NoRes
    /\ apc = "for"
    /\ counts = <<>>
    /\ cl = None
    /\ used = FALSE
    /\ large = <<>>
    /\ calls = <<>>
    /\ metrics = None
    /\ hresp = NoResponse
    /\ fault = NoFault
    /\ run = 1
    /\ tape = <<>>
    /\ metrics1 = None

AuditIdle ==
    /\ csv_counter = FALSE
    /\ xlsx_counter = FALSE
    /\ zip_counter = FALSE
    /\ large_reporter = FALSE
    /\ cur = 0
    /\ res = NoRes
    /\ apc = "idle"
    /\ counts = <<>>
    /\ cl = None
    /\ used = FALSE
    /\ large = <<>>
    /\ calls = <<>>
    /\ metrics = None
    /\ hresp = NoResponse
    /\ fault = NoFault
    /\ run = 0
    /\ tape = <<>>
    /\ metrics1 = None

\* Variant: a resource that has a url is left to the file-based counters.
TakesDatastore_unless_url(r) == r.datastore_active /\ r.id # NoId /\ r.url = NoUrl

\* if res.datastore_active and res.id
TakesDatastore(r) == r.datastore_active /\ r.id # NoId
\* Variant: the url branch is an if of its own, not the elif of the datastore branch.
TakesUrl_if(r) == r.url # NoUrl

\* elif res.url
TakesUrl(r) == ~TakesDatastore(r) /\ r.url # NoUrl
\* Variant: the gate compares with > in place of >=.
IsLarge_gt(c) == c # None /\ Val(c) > large_threshold

\* if cl is not None and cl >= self.large_threshold
IsLarge(c) == c # None /\ Val(c) >= large_threshold
\* Variant: the later counters do not look at used.
ShouldTry_ignoring_used(u, counter) == counter

\* if not used and self.xlsx_counter / if not used and self.zip_counter
ShouldTry(u, counter) == ~u /\ counter
\* Variant: the flag keeps the value the previous resource or audit left.
Unused_kept(u) == u

\* used = False
Unused(u) == FALSE

\* for res in ds.resources: the loop takes the next resource of the dataset
ForResource ==
    /\ apc = "for"
    /\ IF run = 2
       THEN /\ cur < Len(tape)
            /\ res' = tape[cur + 1].res
       ELSE /\ cur < ResLimit
            /\ \E r \in (IF run = 0 THEN Resources ELSE TwiceResources) : res' = r
    /\ tape' = IF run = 1 THEN Append(tape, [res |-> res', answers |-> <<>>]) ELSE tape
    /\ cur' = cur + 1
    /\ calls' = <<>>
    /\ hresp' = NoResponse
    /\ fault' = NoFault
    /\ apc' = "if"
    /\ UNCHANGED <<csv_counter, xlsx_counter, zip_counter, large_reporter,
                   counts, cl, used, large, metrics, run, metrics1>>
    /\ UNCHANGED notAudit

\* Variant: a failed tabular query falls back to the url branch of a resource
\* that has a url.
QueryDatastore_fallback ==
    /\ apc = "if"
    /\ TakesDatastore(res)
    /\ \E a \in Env("get_rows_cols", DatastoreAnswers) :
          /\ fault' = a[1]
          /\ tape' = Taped("get_rows_cols", a)
          /\ IF a[2] # None
             THEN /\ counts' = Append(counts, Val(a[2]).rows)
                  /\ calls' = calls \o <<Call("get_rows_cols", Some(Val(a[2]).rows)),
                                         Call("counts.append", Some(Val(a[2]).rows))>>
                  /\ apc' = "for"
                  /\ cl' = cl
             ELSE /\ counts' = counts
                  /\ calls' = Append(calls, Call("get_rows_cols", None))
                  /\ apc' = IF res.url # NoUrl THEN "gate" ELSE "for"
                  /\ cl' = None
    /\ UNCHANGED <<csv_counter, xlsx_counter, zip_counter, large_reporter,
                   cur, res, used, large, metrics, hresp, run, metrics1>>
    /\ UNCHANGED notAudit

\* the datastore branch: query the tabular endpoint, append its row count
QueryDatastore ==
    /\ apc = "if"
    /\ TakesDatastore(res)
    /\ \E a \in Env("get_rows_cols", DatastoreAnswers) :
          /\ fault' = a[1]
          /\ tape' = Taped("get_rows_cols", a)
          /\ IF Escapes("get_rows_cols", a[1])
             THEN /\ apc' = "raised"
                  /\ UNCHANGED <<counts, calls>>
             ELSE /\ apc' = "for"
                  /\ IF a[2] # None
                     THEN /\ counts' = Append(counts, Val(a[2]).rows)
                          /\ calls' = calls \o
                                <<Call("get_rows_cols", Some(Val(a[2]).rows)),
                                  Call("counts.append", Some(Val(a[2]).rows))>>
                     ELSE /\ counts' = counts
                          /\ calls' = Append(calls, Call("get_rows_cols", None))
    /\ UNCHANGED <<csv_counter, xlsx_counter, zip_counter, large_reporter,
                   cur, res, cl, used, large, metrics, hresp, run, metrics1>>
    /\ UNCHANGED notAudit

\* neither branch: the resource is passed over
NoBranch ==
    /\ apc = "if"
    /\ ~TakesDatastore(res)
    /\ ~TakesUrl(res)
    /\ apc' = "for"
    /\ UNCHANGED <<csv_counter, xlsx_counter, zip_counter, large_reporter,
                   cur, res, counts, cl, used, large, calls, metrics,
                   hresp, fault, run, tape, metrics1>>
    /\ UNCHANGED notAudit

\* the url branch: cl = self.http.head_content_length(res.url)
ProbeSize ==
    /\ apc = "if"
    /\ TakesUrl(res)
    /\ \E r \in Env("head_content_length", HeadResponses) :
          /\ hresp' = Some(r)
          /\ fault' = HeadFault(r)
          /\ tape' = Taped("head_content_length", r)
          /\ IF Escapes("head_content_length", HeadFault(r))
             THEN /\ apc' = "raised"
                  /\ UNCHANGED <<cl, calls>>
             ELSE /\ apc' = "gate"
                  /\ cl' = head_content_length(r)
                  /\ calls' = Append(calls, Call("head_content_length",
                                                 head_content_length(r)))
    /\ UNCHANGED <<csv_counter, xlsx_counter, zip_counter, large_reporter,
                   cur, res, counts, used, large, metrics, run, metrics1>>
    /\ UNCHANGED notAudit

\* the large-resource gate: report the resource and continue with the next
GateLarge ==
    /\ apc = "gate"
    /\ IsLarge(cl)
    /\ IF large_reporter
       THEN /\ large' = Append(large, [resource_id |-> res.id, url |-> res.url,
                                       format |-> res.format, content_length |-> Val(cl),
                                       reason |-> "content-length>=threshold"])
            /\ calls' = Append(calls, Call("large_reporter.append", None))
       ELSE UNCHANGED <<large, calls>>
    /\ hresp' = NoResponse
    /\ apc' = "for"
    /\ UNCHANGED <<csv_counter, xlsx_counter, zip_counter, large_reporter,
                   cur, res, counts, cl, used, metrics, fault, run, tape, metrics1>>
    /\ UNCHANGED notAudit

\* used = False, then the delimited-text counter
CountCsv ==
    /\ apc = "gate"
    /\ ~IsLarge(cl)
    /\ hresp' = NoResponse
    /\ IF csv_counter
       THEN \E a \in Env("csv.count_rows", CsvAnswers(res.url)) :
               /\ fault' = a[1]
               /\ tape' = Taped("csv.count_rows", a)
               /\ IF Escapes("csv.count_rows", a[1])
                  THEN /\ apc' = "raised"
                       /\ used' = Unused(used)
                       /\ UNCHANGED <<counts, calls>>
                  ELSE /\ apc' = "xlsx"
                       /\ IF IsPositiveInt(a[2])
                          THEN /\ counts' = Append(counts, Val(a[2]))
                               /\ used' = TRUE
                               /\ calls' = calls \o <<Call("csv.count_rows", a[2]),
                                                      Call("counts.append", a[2])>>
                          ELSE /\ counts' = counts
                               /\ used' = Unused(used)
                               /\ calls' = Append(calls, Call("csv.count_rows", a[2]))
       ELSE /\ used' = Unused(used)
            /\ apc' = "xlsx"
            /\ UNCHANGED <<counts, calls, fault, tape>>
    /\ UNCHANGED <<csv_counter, xlsx_counter, zip_counter, large_reporter,
                   cur, res, cl, large, metrics, run, metrics1>>
    /\ UNCHANGED notAudit

\* if not used and self.xlsx_counter
CountXlsx ==
    /\ apc = "xlsx"
    /\ IF ShouldTry(used, xlsx_counter)
       THEN \E a \in Env("xlsx.count_rows", XlsxAnswers(res.url, res.format)) :
               /\ fault' = a[1]
               /\ tape' = Taped("xlsx.count_rows", a)
               /\ IF Escapes("xlsx.count_rows", a[1])
                  THEN /\ apc' = "raised"
                       /\ UNCHANGED <<counts, used, calls>>
                  ELSE /\ apc' = "zip"
                       /\ IF IsPositiveInt(a[2])
                          THEN /\ counts' = Append(counts, Val(a[2]))
                               /\ used' = TRUE
                               /\ calls' = calls \o <<Call("xlsx.count_rows", a[2]),
                                                      Call("counts.append", a[2])>>
                          ELSE /\ calls' = Append(calls, Call("xlsx.count_rows", a[2]))
                               /\ UNCHANGED <<counts, used>>
       ELSE /\ apc' = "zip"
            /\ UNCHANGED <<counts, used, calls, fault, tape>>
    /\ UNCHANGED <<csv_counter, xlsx_counter, zip_counter, large_reporter,
                   cur, res, cl, large, metrics, hresp, run, metrics1>>
    /\ UNCHANGED notAudit

\* if not used and self.zip_counter
CountZip ==
    /\ apc = "zip"
    /\ IF ShouldTry(used, zip_counter)
       THEN \E a \in Env("zip.count_rows", ZipAnswers(res.url, res.format)) :
               /\ fault' = a[1]
               /\ tape' = Taped("zip.count_rows", a)
               /\ IF Escapes("zip.count_rows", a[1])
                  THEN /\ apc' = "raised"
                       /\ UNCHANGED <<counts, used, calls>>
                  ELSE /\ apc' = "for"
                       /\ IF IsPositiveInt(a[2])
                          THEN /\ counts' = Append(counts, Val(a[2]))
                               /\ used' = TRUE
                               /\ calls' = calls \o <<Call("zip.count_rows", a[2]),
                                                      Call("counts.append", a[2])>>
                          ELSE /\ calls' = Append(calls, Call("zip.count_rows", a[2]))
                               /\ UNCHANGED <<counts, used>>
       ELSE /\ apc' = "for"
            /\ UNCHANGED <<counts, used, calls, fault, tape>>
    /\ UNCHANGED <<csv_counter, xlsx_counter, zip_counter, large_reporter,
                   cur, res, cl, large, metrics, hresp, run, metrics1>>
    /\ UNCHANGED notAudit

\* Variant: the aggregate is the sum of the counts (the earlier policy).
RECURSIVE sum(_)
sum(s) == IF s = <<>> THEN 0 ELSE s[1] + sum(Tail(s))
RowsTotal_sum(cs) == IF cs # <<>> THEN sum(cs) ELSE 0

\* rows_total = max(counts) if counts else 0
RowsTotal(cs) == IF cs # <<>> THEN max(cs) ELSE 0

\* the resources are exhausted: build the DatasetMetrics
ReturnMetrics ==
    /\ apc = "for"
    /\ run = 2 => cur = Len(tape)
    /\ metrics' = Some([n_resources |-> cur, rows_total |-> RowsTotal(counts)])
    /\ apc' = "done"
    /\ UNCHANGED <<csv_counter, xlsx_counter, zip_counter, large_reporter,
                   cur, res, counts, cl, used, large, calls,
                   hresp, fault, run, tape, metrics1>>
    /\ UNCHANGED notAudit

\* audit_dataset is called again with the same descriptor: counts = [] and the
\* loop starts over; the locals the code assigns before it reads them (res,
\* cl, used) hold whatever they held
AuditAgain ==
    /\ run = 1
    /\ apc = "done"
    /\ run' = 2
    /\ metrics1' = metrics
    /\ metrics' = None
    /\ counts' = <<>>
    /\ cur' = 0
    /\ calls' = <<>>
    /\ apc' = "for"
    /\ UNCHANGED <<csv_counter, xlsx_counter, zip_counter, large_reporter,
                   res, cl, used, large, hresp, fault, tape>>
    /\ UNCHANGED notAudit

AuditNext ==
    \/ ForResource
    \/ QueryDatastore
    \/ NoBranch
    \/ ProbeSize
    \/ GateLarge
    \/ CountCsv
    \/ CountXlsx
    \/ CountZip
    \/ ReturnMetrics

AuditTwiceNext ==
    \/ AuditNext
    \/ AuditAgain

(***************************************************************************)
(* One logical JSON call: CKANClient._get_json and                         *)
(* DataStoreClient.get_rows_cols.  Time is counted in units of 0.5 s, the  *)
(* initial backoff.                                                        *)
(***************************************************************************)
MaxRetries == 3    \* largest configured retries

\* What one HTTP request of the call can come to:
\*   get_raises    requests.get raises (timeout, connection error)
\*   non200        a response whose status is not 200
\*   json_raises   status 200, r.json() raises
\*   shape_raises  status 200, the payload is not of the expected shape and
\*                 data.get / res.get raises
\*   not_success   status 200, no success flag, no result, or a total that is no int
\*   ok            status 200 and a usable payload
RequestOutcomes(fn) ==
    IF fn = "_get_json"
    THEN {"get_raises", "non200", "json_raises", "ok"}
    ELSE {"get_raises", "non200", "json_raises", "shape_raises", "not_success", "ok"}

Raising == {"get_raises", "json_raises", "shape_raises"}
Quiet == {"non200", "not_success"}

\* Variant: only requests.get is inside the try block.
InTry_get_only(o) == o = "get_raises"

\* The statements that the try ... except Exception of the loop body encloses.
InTry(o) == o \in {"get_raises", "json_raises", "shape_raises"}

\* for _ in range(self.retries)
MayAttempt(done, n) == done < n

\* What the call returns on a usable payload: r.json() (which is None for the
\* JSON text null), or the {"rows", "cols"} dictionary.
Payloads(fn) == IF fn = "_get_json" THEN {None, Some("json")}
                ELSE {Some([rows |-> r, cols |-> 1]) : r \in 0..1}

JsonInit ==
    /\ jfn \in {"_get_json", "get_rows_cols"}
    /\ retries \in 0..MaxRetries
    /\ jpc = "for"
    /\ attempt = 0
    /\ backoff = 1
    /\ slept = 0
    /\ outcomes = <<>>
    /\ jresult = None
    /\ escaped = FALSE

JsonIdle ==
    /\ jfn = "_get_json"
    /\ retries = 0
    /\ jpc = "idle"
    /\ attempt = 0
    /\ backoff = 1
    /\ slept = 0
    /\ outcomes = <<>>
    /\ jresult = None
    /\ escaped = FALSE

\* an attempt that ends in return (get_rows_cols first sleeps self.delay, the
\* rate-limiting pause, which is no backoff sleep and is not counted in slept)
RequestOk ==
    /\ jpc = "for"
    /\ MayAttempt(attempt, retries)
    /\ attempt' = attempt + 1
    /\ outcomes' = Append(outcomes, "ok")
    /\ jresult' \in Payloads(jfn)
    /\ jpc' = "returned"
    /\ UNCHANGED <<jfn, retries, backoff, slept, escaped>>
    /\ UNCHANGED notJson

\* an attempt that falls out of the try block without raising: the loop goes on
RequestFailsQuietly ==
    /\ jpc = "for"
    /\ MayAttempt(attempt, retries)
    /\ \E o \in RequestOutcomes(jfn) \cap Quiet : outcomes' = Append(outcomes, o)
    /\ attempt' = attempt + 1
    /\ UNCHANGED <<jfn, retries, jpc, backoff, slept, jresult, escaped>>
    /\ UNCHANGED notJson

\* an attempt that raises: except Exception sleeps and doubles the backoff
RequestRaises ==
    /\ jpc = "for"
    /\ MayAttempt(attempt, retries)
    /\ attempt' = attempt + 1
    /\ \E o \in RequestOutcomes(jfn) \cap Raising :
          /\ outcomes' = Append(outcomes, o)
          /\ IF InTry(o)
             THEN /\ slept' = slept + backoff
                  /\ backoff' = backoff * 2
                  /\ UNCHANGED <<jpc, escaped>>
             ELSE /\ escaped' = TRUE
                  /\ jpc' = "raised"
                  /\ UNCHANGED <<slept, backoff>>
    /\ UNCHANGED <<jfn, retries, jresult>>
    /\ UNCHANGED notJson

\* the loop is exhausted: return None
ReturnNone ==
    /\ jpc = "for"
    /\ ~MayAttempt(attempt, retries)
    /\ jresult' = None
    /\ jpc' = "returned"
    /\ UNCHANGED <<jfn, retries, attempt, backoff, slept, outcomes, escaped>>
    /\ UNCHANGED notJson

JsonNext ==
    \/ RequestOk
    \/ RequestFailsQuietly
    \/ RequestRaises
    \/ ReturnNone

(***************************************************************************)
(* HttpUtil.download_to_tempfile.  Only the length of the body matters.    *)
(***************************************************************************)
MaxBody == 4       \* longest response body, in bytes
MaxCap == 4        \* largest byte cap (max_bytes)
MaxChunk == 2      \* largest chunk_size

\* the chunks iter_content may hand over next: up to chunk_size bytes of what
\* is left of the body, possibly none (a keep-alive chunk)
ChunkLens(size, left) == 0..(IF size < left THEN size ELSE left)

\* Variant: the cap is compared with the chunk's length, not the running total.
OverCap_chunk(t, k, m) == k > m

\* if total > max_bytes, with total the running total and k = len(chunk)
OverCap(t, k, m) == t > m

DlInit ==
    /\ dmax \in 0..MaxCap
    /\ dchunk \in 1..MaxChunk
    /\ dbody \in 0..MaxBody
    /\ dsent = 0
    /\ dpc = "get"
    /\ dtotal = 0
    /\ dfile = None
    /\ dresult = "running"

DlIdle ==
    /\ dmax = 0
    /\ dchunk = 1
    /\ dbody = 0
    /\ dsent = 0
    /\ dpc = "idle"
    /\ dtotal = 0
    /\ dfile = None
    /\ dresult = "running"

\* requests.get or raise_for_status raises: except Exception returns None
DlRequestFails ==
    /\ dpc = "get"
    /\ dpc' = "returned"
    /\ dresult' = "none"
    /\ UNCHANGED <<dmax, dchunk, dbody, dsent, dtotal, dfile>>
    /\ UNCHANGED notDl

\* total = 0; the temporary file is created
DlOpen ==
    /\ dpc = "get"
    /\ dtotal' = 0
    /\ dfile' = Some(0)
    /\ dpc' = "stream"
    /\ UNCHANGED <<dmax, dchunk, dbody, dsent, dresult>>
    /\ UNCHANGED notDl

\* one iteration of for chunk in r.iter_content(...)
DlChunk ==
    /\ dpc = "stream"
    /\ \E k \in ChunkLens(dchunk, dbody - dsent) :
          /\ dsent' = dsent + k
          /\ IF k = 0
             THEN UNCHANGED <<dtotal, dfile, dpc, dresult>>
             ELSE /\ dtotal' = dtotal + k
                  /\ IF OverCap(dtotal + k, k, dmax)
                     THEN /\ dfile' = None
                          /\ dresult' = "none"
                          /\ dpc' = "returned"
                     ELSE /\ dfile' = Some(Val(dfile) + k)
                          /\ UNCHANGED <<dpc, dresult>>
    /\ UNCHANGED <<dmax, dchunk, dbody>>
    /\ UNCHANGED notDl

\* the stream or the write raises: the with block closes the file, which stays
\* on disk, and except Exception returns None
DlStreamRaises ==
    /\ dpc = "stream"
    /\ dpc' = "returned"
    /\ dresult' = "none"
    /\ UNCHANGED <<dmax, dchunk, dbody, dsent, dtotal, dfile>>
    /\ UNCHANGED notDl

\* the body is through: return tmp.name
DlReturnPath ==
    /\ dpc = "stream"
    /\ dsent = dbody
    /\ dpc' = "returned"
    /\ dresult' = "path"
    /\ UNCHANGED <<dmax, dchunk, dbody, dsent, dtotal, dfile>>
    /\ UNCHANGED notDl

DlNext ==
    \/ DlRequestFails
    \/ DlOpen
    \/ DlChunk
    \/ DlStreamRaises
    \/ DlReturnPath

(***************************************************************************)
(* CsvRowCounter.count_rows over HttpUtil.stream_bytes.  A body is a        *)
(* sequence of bytes, each the newline byte or some other byte.            *)
(***************************************************************************)
NL == "\n"         \* b"\n"
OtherByte == "a"   \* any byte that is no newline

RECURSIVE SeqsUpTo(_, _)
SeqsUpTo(S, n) == IF n = 0 THEN {<<>>}
                  ELSE LET shorter == SeqsUpTo(S, n - 1)
                       IN shorter \cup {Append(b, x) : b \in {t \in shorter : Len(t) = n - 1}, x \in S}
Bodies == SeqsUpTo({NL, OtherByte}, MaxBody)

CsvUrls == {NoUrl, <<"f", ".csv">>, <<"f", ".CSV">>, <<"f", ".csv", "?", "v">>,
            <<"f", "?", "v", ".csv">>, <<"f", ".xlsx">>}

\* chunk.count(b"\n")
count(chunk, b) == Cardinality({k \in 1..Len(chunk) : chunk[k] = b})
\* chunk.endswith(b"\n")
endsWithByte(chunk, b) == Len(chunk) > 0 /\ chunk[Len(chunk)] = b

\* Variant: stream_bytes yields every chunk, empty ones too.
Yields_all(chunk) == TRUE

\* stream_bytes: if chunk: yield chunk
Yields(chunk) == chunk # <<>>

\* Variant: the cap is compared with the chunk's length, not with bytes_read.
CsvOverCap_chunk(read, k, m) == k > m

\* if bytes_read > self.max_bytes, with k = len(chunk)
CsvOverCap(read, k, m) == read > m

\* Variant: the content length is not looked at before streaming.
HeadOverCap_off(c, m) == FALSE

\* if cl is not None and cl > self.max_bytes
HeadOverCap(c, m) == c # None /\ Val(c) > m

CsvInit ==
    /\ curl \in CsvUrls
    /\ cmax \in 0..MaxCap
    /\ cchunk \in 1..MaxChunk
    /\ cbody \in Bodies
    /\ csent = 0
    /\ cpc = "start"
    /\ ccl = None
    /\ bytes_read = 0
    /\ lines = 0
    /\ tail_newline = TRUE
    /\ cgets = 0
    /\ cheads = 0
    /\ cresult = None

CsvIdle ==
    /\ curl = NoUrl
    /\ cmax = 0
    /\ cchunk = 1
    /\ cbody = <<>>
    /\ csent = 0
    /\ cpc = "idle"
    /\ ccl = None
    /\ bytes_read = 0
    /\ lines = 0
    /\ tail_newline = TRUE
    /\ cgets = 0
    /\ cheads = 0
    /\ cresult = None

\* if not self.is_csv_url(url): return None
CsvNotCsv ==
    /\ cpc = "start"
    /\ ~is_csv_url(curl)
    /\ cpc' = "ret_not_csv"
    /\ UNCHANGED <<curl, cmax, cchunk, cbody, csent, ccl, bytes_read, lines,
                   tail_newline, cgets, cheads, cresult>>
    /\ UNCHANGED notCsv

\* cl = head_content_length(url); return None when it is known and over the cap;
\* otherwise bytes_read = 0, lines = 0, tail_newline = True
CsvHead ==
    /\ cpc = "start"
    /\ is_csv_url(curl)
    /\ cheads' = cheads + 1
    /\ \E c \in OptionalOf(0..(MaxBody + 1)) :
          /\ ccl' = c
          /\ cpc' = IF HeadOverCap(c, cmax) THEN "ret_head" ELSE "get"
    /\ bytes_read' = 0
    /\ lines' = 0
    /\ tail_newline' = TRUE
    /\ UNCHANGED <<curl, cmax, cchunk, cbody, csent, cgets, cresult>>
    /\ UNCHANGED notCsv

\* stream_bytes: requests.get or raise_for_status raises, except Exception returns None
CsvGetFails ==
    /\ cpc = "get"
    /\ cgets' = cgets + 1
    /\ cpc' = "ret_except"
    /\ UNCHANGED <<curl, cmax, cchunk, cbody, csent, ccl, bytes_read, lines,
                   tail_newline, cheads, cresult>>
    /\ UNCHANGED notCsv

\* stream_bytes: the response arrives with a good status
CsvGetOk ==
    /\ cpc = "get"
    /\ cgets' = cgets + 1
    /\ cpc' = "stream"
    /\ UNCHANGED <<curl, cmax, cchunk, cbody, csent, ccl, bytes_read, lines,
                   tail_newline, cheads, cresult>>
    /\ UNCHANGED notCsv

\* iter_content hands over the next chunk; stream_bytes yields it when it is
\* not empty, and the loop body of count_rows runs on it
CsvChunk ==
    /\ cpc = "stream"
    /\ \E k \in ChunkLens(cchunk, Len(cbody) - csent) :
          LET chunk == SubSeq(cbody, csent + 1, csent + k) IN
          /\ csent' = csent + k
          /\ IF Yields(chunk)
             THEN /\ bytes_read' = bytes_read + Len(chunk)
                  /\ lines' = lines + count(chunk, NL)
                  /\ tail_newline' = endsWithByte(chunk, NL)
                  /\ cpc' = IF CsvOverCap(bytes_read + Len(chunk), Len(chunk), cmax)
                            THEN "ret_cap" ELSE "stream"
             ELSE UNCHANGED <<bytes_read, lines, tail_newline, cpc>>
    /\ UNCHANGED <<curl, cmax, cchunk, cbody, ccl, cgets, cheads, cresult>>
    /\ UNCHANGED notCsv

\* the stream raises part-way: except Exception returns None
CsvStreamRaises ==
    /\ cpc = "stream"
    /\ cpc' = "ret_except"
    /\ UNCHANGED <<curl, cmax, cchunk, cbody, csent, ccl, bytes_read, lines,
                   tail_newline, cgets, cheads, cresult>>
    /\ UNCHANGED notCsv

\* the stream is over: count the last line when it has no newline, return lines
CsvReturnLines ==
    /\ cpc = "stream"
    /\ csent = Len(cbody)
    /\ LET final == IF bytes_read > 0 /\ ~tail_newline THEN lines + 1 ELSE lines IN
          /\ lines' = final
          /\ cresult' = Some(final)
    /\ cpc' = "ret_lines"
    /\ UNCHANGED <<curl, cmax, cchunk, cbody, csent, ccl, bytes_read,
                   tail_newline, cgets, cheads>>
    /\ UNCHANGED notCsv

CsvNext ==
    \/ CsvNotCsv
    \/ CsvHead
    \/ CsvGetFails
    \/ CsvGetOk
    \/ CsvChunk
    \/ CsvStreamRaises
    \/ CsvReturnLines

CsvReturned == cpc \in {"ret_not_csv", "ret_head", "ret_except", "ret_cap", "ret_lines"}

(***************************************************************************)
(* XlsxRowCounter.count_rows and ZipRowCounter.count_rows, from the call   *)
(* of download_to_tempfile on (the url has been accepted).  The state is   *)
(* the record file:                                                        *)
(*   kind     which counter runs: "xlsx" or "zip"                          *)
(*   per      self.per_file_max_bytes                                      *)
(*   chunk    self.chunk_size                                              *)
(*   pc       position inside count_rows                                   *)
(*   path     download_to_tempfile returned a path                         *)
(*   tmp      the temporary file: "none", "on_disk" or "deleted"           *)
(*   namelist zf.namelist()                                                *)
(*   names    the local names                                              *)
(*   idx      names taken by the for loop so far                           *)
(*   body     the decompressed bytes of the entry being read               *)
(*   sent     bytes of the entry read so far                               *)
(*   total, lines, tail_nl   the locals of _count_csv_stream               *)
(*   rows     the local rows                                               *)
(*   expect   lines of the visited entries, each read as a whole           *)
(*   seen     entries (or worksheet rows) visited                          *)
(*   over     visited entries larger than per_file_max_bytes               *)
(*   exit     the way count_rows left                                      *)
(*   result   the value returned (None while running)                      *)
(* The entries of the archive are read as the loop reaches them.           *)
(***************************************************************************)
MaxEntries == 2    \* names in an archive
MaxEntryBody == 2  \* longest decompressed entry, in bytes
MaxSheetRows == 2  \* rows of the active worksheet

EntryNames == {<<"a", ".csv">>, <<"b", ".CSV">>, <<"c", ".txt">>}
EntryBodies == SeqsUpTo({NL, OtherByte}, MaxEntryBody)

\* Variant: an entry of exactly per_file_max_bytes is over the cap.
EntryOverCap_ge(t, p) == t >= p

\* if total > self.per_file_max_bytes
EntryOverCap(t, p) == t > p

\* n.lower().endswith(".csv")
IsCsvName(n) == endswith(lower(n), ".csv")
\* names = [n for n in zf.namelist() if n.lower().endswith(".csv")]
CsvNames(ns) == SelectSeq(ns, IsCsvName)

\* the lines of a body read as a whole: its newline bytes, and one more for
\* an unterminated last line
WholeLines(body) ==
    count(body, NL) + (IF body # <<>> /\ ~endsWithByte(body, NL) THEN 1 ELSE 0)

\* Variant: the temporary file is removed only when the try block returns.
Leave_return_only(exit) == IF exit = "except" THEN "done" ELSE "unlink"

\* finally: the clause runs on every way out of the try statement
Leave(exit) == "unlink"

\* a way out of the try statement with the value count_rows will return
Exit(exit, value) ==
    file' = [file EXCEPT !.exit = exit, !.result = value, !.pc = Leave(exit)]

FileStart(kind, per, chunk) ==
    [kind |-> kind, per |-> per, chunk |-> chunk, pc |-> "download",
     path |-> FALSE, tmp |-> "none", namelist |-> <<>>, names |-> <<>>, idx |-> 0,
     body |-> <<>>, sent |-> 0, total |-> 0, lines |-> 0, tail_nl |-> TRUE,
     rows |-> 0, expect |-> 0, seen |-> 0, over |-> 0,
     exit |-> "running", result |-> None]

FileInit ==
    \E kind \in {"xlsx", "zip"}, per \in 1..MaxEntryBody, chunk \in 1..MaxChunk :
        file = FileStart(kind, per, chunk)

FileIdle == file = [FileStart("idle", 1, 1) EXCEPT !.pc = "idle"]

\* path = self.http.download_to_tempfile(...) returns the path of the file
FileDownloaded ==
    /\ file.pc = "download"
    /\ file' = [file EXCEPT !.path = TRUE, !.tmp = "on_disk", !.pc = "try"]
    /\ UNCHANGED notFile

\* download_to_tempfile returns None (with no file, or with the file its
\* except clause left behind): if not path: return None
FileNotDownloaded ==
    /\ file.pc = "download"
    /\ \E t \in {"none", "on_disk"} :
          file' = [file EXCEPT !.path = FALSE, !.tmp = t, !.exit = "no_path",
                               !.result = None, !.pc = "done"]
    /\ UNCHANGED notFile

\* import openpyxl raises ImportError: return None
XlsxImportFails ==
    /\ file.pc = "try"
    /\ file.kind = "xlsx"
    /\ Exit("import_error", None)
    /\ UNCHANGED notFile

\* openpyxl.load_workbook raises: except Exception: return None
XlsxLoadFails ==
    /\ file.pc = "try"
    /\ file.kind = "xlsx"
    /\ Exit("except", None)
    /\ UNCHANGED notFile

\* wb = openpyxl.load_workbook(path, ...); ws = wb.active; rows = 0
XlsxLoad ==
    /\ file.pc = "try"
    /\ file.kind = "xlsx"
    /\ file' = [file EXCEPT !.rows = 0, !.pc = "rows"]
    /\ UNCHANGED notFile

\* for row in ws.iter_rows(values_only=True): a row counts when one of its
\* cells is not None and not blank
XlsxRow ==
    /\ file.pc = "rows"
    /\ file.seen < MaxSheetRows
    /\ \E has_value \in BOOLEAN :
          file' = [file EXCEPT !.rows = IF has_value THEN @ + 1 ELSE @,
                               !.expect = IF has_value THEN @ + 1 ELSE @,
                               !.seen = @ + 1]
    /\ UNCHANGED notFile

\* iter_rows raises: wb.close(), then except Exception: return None
XlsxRowRaises ==
    /\ file.pc = "rows"
    /\ Exit("except", None)
    /\ UNCHANGED notFile

\* the worksheet is exhausted: return rows (after wb.close())
XlsxReturnRows ==
    /\ file.pc = "rows"
    /\ Exit("rows", Some(file.rows))
    /\ UNCHANGED notFile

\* zipfile.ZipFile(path, "r") raises (not an archive): except Exception
ZipOpenFails ==
    /\ file.pc = "try"
    /\ file.kind = "zip"
    /\ Exit("except", None)
    /\ UNCHANGED notFile

\* rows = 0; names = the .csv names of zf.namelist()
ZipOpen ==
    /\ file.pc = "try"
    /\ file.kind = "zip"
    /\ \E ns \in SeqsUpTo(EntryNames, MaxEntries) :
          file' = [file EXCEPT !.namelist = ns, !.names = CsvNames(ns), !.idx = 0,
                               !.rows = 0, !.pc = "names"]
    /\ UNCHANGED notFile

\* if not names: return None
ZipNoNames ==
    /\ file.pc = "names"
    /\ file.names = <<>>
    /\ Exit("no_names", None)
    /\ UNCHANGED notFile

\* for name in names
ZipHasNames ==
    /\ file.pc = "names"
    /\ file.names # <<>>
    /\ file' = [file EXCEPT !.pc = "entry"]
    /\ UNCHANGED notFile

\* _count_csv_stream: f = zf.open(name, "r"); total = 0; lines = 0; tail_nl = True
ZipEntryOpen ==
    /\ file.pc = "entry"
    /\ file.idx < Len(file.names)
    /\ \E body \in EntryBodies :
          file' = [file EXCEPT !.body = body, !.seen = @ + 1, !.sent = 0, !.total = 0,
                               !.lines = 0, !.tail_nl = TRUE, !.pc = "read"]
    /\ UNCHANGED notFile

\* zf.open raises (a damaged or encrypted entry): except Exception: return
\* None, and count_rows goes to the next name
ZipEntryOpenFails ==
    /\ file.pc = "entry"
    /\ file.idx < Len(file.names)
    /\ file' = [file EXCEPT !.seen = @ + 1, !.idx = @ + 1]
    /\ UNCHANGED notFile

\* the entry has been read to its end or given up for its size: what it
\* holds when read as a whole
Visited(f) ==
    [f EXCEPT !.expect = @ + (IF Len(f.body) > f.per THEN 0 ELSE WholeLines(f.body)),
              !.over = @ + (IF Len(f.body) > f.per THEN 1 ELSE 0)]

\* chunk = f.read(self.chunk_size), not empty
ZipReadChunk ==
    /\ file.pc = "read"
    /\ file.sent < Len(file.body)
    /\ \E k \in 1..(IF file.chunk < Len(file.body) - file.sent
                   THEN file.chunk ELSE Len(file.body) - file.sent) :
          LET chunk == SubSeq(file.body, file.sent + 1, file.sent + k) IN
          IF EntryOverCap(file.total + k, file.per)
          THEN \* return None (f.close()); the entry adds nothing
               file' = Visited([file EXCEPT !.sent = @ + k, !.total = @ + k,
                                            !.idx = @ + 1, !.pc = "entry"])
          ELSE file' = [file EXCEPT !.sent = @ + k, !.total = @ + k,
                                    !.lines = @ + count(chunk, NL),
                                    !.tail_nl = endsWithByte(chunk, NL)]
    /\ UNCHANGED notFile

\* f.read raises (a damaged entry): f.close(), except Exception: return None,
\* and count_rows goes to the next name
ZipReadRaises ==
    /\ file.pc = "read"
    /\ file' = [file EXCEPT !.idx = @ + 1, !.pc = "entry"]
    /\ UNCHANGED notFile

\* f.read returns nothing more: break; 0 for an empty entry, else lines, one
\* more when the last line is unterminated; if c > 0: rows += c
ZipReadEnd ==
    /\ file.pc = "read"
    /\ file.sent = Len(file.body)
    /\ LET c == IF file.total = 0 THEN 0
                ELSE IF ~file.tail_nl THEN file.lines + 1 ELSE file.lines
       IN file' = Visited([file EXCEPT !.rows = IF c > 0 THEN @ + c ELSE @,
                                       !.idx = @ + 1, !.pc = "entry"])
    /\ UNCHANGED notFile

\* return rows if rows > 0 else None
ZipReturnRows ==
    /\ file.pc = "entry"
    /\ file.idx = Len(file.names)
    /\ Exit("rows", IF file.rows > 0 THEN Some(file.rows) ELSE None)
    /\ UNCHANGED notFile

\* finally: os.unlink(path)
FileUnlink ==
    /\ file.pc = "unlink"
    /\ file' = [file EXCEPT !.tmp = "deleted", !.pc = "done"]
    /\ UNCHANGED notFile

FileNext ==
    \/ FileDownloaded
    \/ FileNotDownloaded
    \/ XlsxImportFails
    \/ XlsxLoadFails
    \/ XlsxLoad
    \/ XlsxRow
    \/ XlsxRowRaises
    \/ XlsxReturnRows
    \/ ZipOpenFails
    \/ ZipOpen
    \/ ZipNoNames
    \/ ZipHasNames
    \/ ZipEntryOpen
    \/ ZipEntryOpenFails
    \/ ZipReadChunk
    \/ ZipReadRaises
    \/ ZipReadEnd
    \/ ZipReturnRows
    \/ FileUnlink

(***************************************************************************)
(* CKANClient.iter_datasets and iter_datasets_via_list.  The catalog holds *)
(* the datasets 1..cat; a page that is served holds the datasets of its    *)
(* offset, the id list holds them all.  Every _get_json call is one step   *)
(* (its retries are the subject of SpecJson).  The state is the record     *)
(* iter:                                                                   *)
(*   cat        number of datasets in the catalog                          *)
(*   page_size  self.page_size                                             *)
(*   limit      the limit argument                                         *)
(*   pc         position inside the generators                             *)
(*   via        "paged", or why the traversal went to the id list          *)
(*   listing    the package_list call: "none" (not made), "failed", "ok"   *)
(*   total, start, emitted   the locals of iter_datasets                   *)
(*   results    what is left of the local results                          *)
(*   ids        iter_datasets_via_list's local ids                         *)
(*   idx        ids taken by the for loop so far                           *)
(*   list_emitted   iter_datasets_via_list's local emitted                 *)
(*   yielded    the datasets yielded to the caller, in order               *)
(*   shown      the package_show calls made and whether each succeeded     *)
(***************************************************************************)
MaxCatalog == 3    \* datasets in the catalog
MaxPage == 2       \* largest page_size
MaxLimit == 2      \* largest limit

\* What a _get_json call comes to, as iter_datasets looks at it:
\*   none        None (every attempt failed)
\*   no_success  a payload without a true "success"
\*   malformed   "success" is true and "result" is missing
\*   ok          "success" is true and "result" is there
\*   no_result   (package_list) "success" is true and "result" is null
SearchOutcomes == {"none", "no_success", "malformed", "ok"}
ListOutcomes == {"none", "no_success", "no_result", "ok"}
ShowOutcomes == {"none", "no_success", "malformed", "ok"}

\* if not first or not first.get("success")
Failed(o) == o \in {"none", "no_success"}

\* the datasets a served page holds: those at offsets start .. start + rows - 1
RECURSIVE Range(_, _)
Range(a, b) == IF a > b THEN <<>> ELSE <<a>> \o Range(a + 1, b)
Page(n, start, rows) == Range(start + 1, IF start + rows < n THEN start + rows ELSE n)

\* if limit is not None and emitted >= limit
LimitReached(limit, emitted) == limit # None /\ emitted >= Val(limit)

\* Variant: the offset stays where it is.
NextStart_same(start, page_size) == start

\* start += self.page_size
NextStart(start, page_size) == start + page_size

\* Variant: a failed package_show ends the traversal.
AfterFailedShow_abort == "done"

\* else: print(...), and the for loop goes on with the next id
AfterFailedShow == "for_id"

IterStart(cat, page_size, limit) ==
    [cat |-> cat, page_size |-> page_size, limit |-> limit, pc |-> "first",
     via |-> "paged", listing |-> "none", total |-> 0, start |-> 0, emitted |-> 0,
     results |-> <<>>, ids |-> <<>>, idx |-> 0, list_emitted |-> 0,
     yielded |-> <<>>, shown |-> <<>>]

IterInit ==
    \E cat \in 0..MaxCatalog, page_size \in 1..MaxPage, limit \in OptionalOf(0..MaxLimit) :
        iter = IterStart(cat, page_size, limit)

IterIdle == iter = [IterStart(0, 1, None) EXCEPT !.pc = "idle"]

\* first = self._package_search(start=0, rows=1), and what follows up to the
\* while loop
IterFirstOn(o, c) ==
    /\ iter.pc = "first"
    /\    IF Failed(o)
          THEN iter' = [iter EXCEPT
                           !.via = IF o = "none" THEN "first_failed" ELSE "first_no_success",
                           !.pc = "list"]
          ELSE IF o = "malformed"
          THEN iter' = [iter EXCEPT !.pc = "raised"]      \* first["result"]: KeyError
          ELSE IF c = 0                                   \* int(... .get("count") or 0)
          THEN iter' = [iter EXCEPT !.total = 0, !.via = "zero_total", !.pc = "list"]
          ELSE iter' = [iter EXCEPT !.total = c, !.start = 0, !.emitted = 0,
                                    !.pc = "while"]

IterFirst ==
    /\ \E o \in SearchOutcomes, c \in 0..(iter.cat + 1) : IterFirstOn(o, c)
    /\ UNCHANGED notIter

\* while start < total: payload = self._package_search(start, self.page_size)
IterPageOn(o) ==
    /\ iter.pc = "while"
    /\ iter.start < iter.total
    /\    IF Failed(o)
          THEN iter' = [iter EXCEPT !.via = "page_failed", !.pc = "list"]
          ELSE IF o = "malformed"
          THEN iter' = [iter EXCEPT !.pc = "raised"]      \* payload["result"]: KeyError
          ELSE LET results == Page(iter.cat, iter.start, iter.page_size) IN
               iter' = [iter EXCEPT !.results = results,
                                    !.pc = IF results = <<>> THEN "done" ELSE "for_pkg"]

IterPage ==
    /\ \E o \in SearchOutcomes : IterPageOn(o)
    /\ UNCHANGED notIter

\* the while condition is false: the generator ends
IterWhileEnd ==
    /\ iter.pc = "while"
    /\ iter.start >= iter.total
    /\ iter' = [iter EXCEPT !.pc = "done"]
    /\ UNCHANGED notIter

\* for pkg in results: return at the limit, else yield the dataset
IterPkg ==
    /\ iter.pc = "for_pkg"
    /\ iter.results # <<>>
    /\ IF LimitReached(iter.limit, iter.emitted)
       THEN iter' = [iter EXCEPT !.pc = "done"]
       ELSE iter' = [iter EXCEPT !.yielded = Append(@, Head(iter.results)),
                                 !.emitted = @ + 1,
                                 !.results = Tail(@)]
    /\ UNCHANGED notIter

\* the page is exhausted: start += self.page_size
IterNextPage ==
    /\ iter.pc = "for_pkg"
    /\ iter.results = <<>>
    /\ iter' = [iter EXCEPT !.start = NextStart(iter.start, iter.page_size),
                             !.pc = "while"]
    /\ UNCHANGED notIter

\* iter_datasets_via_list: listing = self._get_json("/package_list", {})
ListFetchOn(o) ==
    /\ iter.pc = "list"
    /\    IF Failed(o)
          THEN iter' = [iter EXCEPT !.listing = "failed", !.pc = "done"]
          ELSE iter' = [iter EXCEPT
                           !.listing = "ok",
                           !.ids = IF o = "no_result" THEN <<>> ELSE Range(1, iter.cat),
                           !.idx = 0, !.list_emitted = 0, !.pc = "for_id"]

ListFetch ==
    /\ \E o \in ListOutcomes : ListFetchOn(o)
    /\ UNCHANGED notIter

\* for pkg_id in ids: return at the limit, else package_show and yield
ListShowOn(o) ==
    /\ iter.pc = "for_id"
    /\ iter.idx < Len(iter.ids)
    /\ IF LimitReached(iter.limit, iter.list_emitted)
       THEN iter' = [iter EXCEPT !.pc = "done"]
       ELSE    LET pkg_id == iter.ids[iter.idx + 1] IN
               IF Failed(o)
               THEN iter' = [iter EXCEPT
                                !.idx = @ + 1,
                                !.shown = Append(@, [id |-> pkg_id, ok |-> FALSE]),
                                !.pc = AfterFailedShow]
               ELSE IF o = "malformed"
               THEN iter' = [iter EXCEPT !.idx = @ + 1,
                                         !.pc = "raised"]   \* data["result"]: KeyError
               ELSE iter' = [iter EXCEPT
                                !.idx = @ + 1,
                                !.shown = Append(@, [id |-> pkg_id, ok |-> TRUE]),
                                !.yielded = Append(@, pkg_id),
                                !.list_emitted = @ + 1]

ListShow ==
    /\ \E o \in ShowOutcomes : ListShowOn(o)
    /\ UNCHANGED notIter

\* the ids are exhausted: the generator ends
ListEnd ==
    /\ iter.pc = "for_id"
    /\ iter.idx = Len(iter.ids)
    /\ iter' = [iter EXCEPT !.pc = "done"]
    /\ UNCHANGED notIter

IterNext ==
    \/ IterFirst
    \/ IterPage
    \/ IterWhileEnd
    \/ IterPkg
    \/ IterNextPage
    \/ ListFetch
    \/ ListShow
    \/ ListEnd

(***************************************************************************)
(* The zero-argument script: iterate_packages and the loop of main over    *)
(* what it returns.  The catalog holds the datasets 1..cat.  The state is  *)
(* the record script:                                                      *)
(*   cat            number of datasets in the catalog                      *)
(*   rows_per_page  the rows_per_page argument                             *)
(*   pc             position inside iterate_packages and main              *)
(*   total, start   the locals of iterate_packages                         *)
(*   results        what is left of the local results                      *)
(*   fetched        the packages of the pages fetched, in page order       *)
(*   yielded        the packages yielded to the caller                     *)
(*   returned       what the call iterate_packages(...) returned           *)
(*   written        the rows main appended to the output CSV               *)
(***************************************************************************)
\* What request_json comes to, as iterate_packages looks at it.
ScriptOutcomes == {"none", "no_success", "ok"}

ScriptStart(cat, rows_per_page) ==
    [cat |-> cat, rows_per_page |-> rows_per_page, pc |-> "first", total |-> 0,
     start |-> 0, results |-> <<>>, fetched |-> <<>>, yielded |-> <<>>,
     returned |-> "running", written |-> <<>>]

ScriptInit ==
    \E cat \in 0..MaxCatalog, rows_per_page \in 1..MaxPage :
        script = ScriptStart(cat, rows_per_page)

ScriptIdle == script = [ScriptStart(0, 1) EXCEPT !.pc = "idle"]

\* first = request_json(.../package_search, rows 1, start 0); a failure
\* returns; else total = first["result"]["count"]; start = 0
ScriptFirst ==
    /\ script.pc = "first"
    /\ \E o \in ScriptOutcomes, c \in 0..(script.cat + 1) :
          IF Failed(o)
          THEN script' = [script EXCEPT !.pc = "return"]
          ELSE script' = [script EXCEPT !.total = c, !.start = 0, !.pc = "while"]
    /\ UNCHANGED notScript

\* while start < total: the next page; a failed or an empty page breaks
ScriptPage ==
    /\ script.pc = "while"
    /\ script.start < script.total
    /\ \E o \in ScriptOutcomes :
          IF Failed(o)
          THEN script' = [script EXCEPT !.pc = "return"]
          ELSE LET results == Page(script.cat, script.start, script.rows_per_page) IN
               script' = [script EXCEPT
                             !.results = results,
                             !.fetched = @ \o results,
                             !.pc = IF results = <<>> THEN "return" ELSE "for_pkg"]
    /\ UNCHANGED notScript

\* the while condition is false
ScriptWhileEnd ==
    /\ script.pc = "while"
    /\ script.start >= script.total
    /\ script' = [script EXCEPT !.pc = "return"]
    /\ UNCHANGED notScript

\* for pkg in results: pkg  -- an expression statement; nothing is yielded
ScriptPkg ==
    /\ script.pc = "for_pkg"
    /\ script.results # <<>>
    /\ script' = [script EXCEPT !.results = Tail(@)]
    /\ UNCHANGED notScript

\* the page is exhausted: start += rows_per_page
ScriptNextPage ==
    /\ script.pc = "for_pkg"
    /\ script.results = <<>>
    /\ script' = [script EXCEPT !.start = @ + script.rows_per_page, !.pc = "while"]
    /\ UNCHANGED notScript

\* the body holds no yield, so iterate_packages is a plain function: it has
\* run to its end when the call returns, and the call returns None
ScriptReturn ==
    /\ script.pc = "return"
    /\ script' = [script EXCEPT !.returned = "None", !.pc = "main_for"]
    /\ UNCHANGED notScript

\* main: for pkg in iterate_packages(...): ... append_row([...]).  Iterating
\* over None raises TypeError; over an iterable, one row is written per item
MainFor ==
    /\ script.pc = "main_for"
    /\ IF script.returned = "None"
       THEN script' = [script EXCEPT !.pc = "type_error"]
       ELSE script' = [script EXCEPT !.written = script.yielded, !.pc = "done"]
    /\ UNCHANGED notScript

ScriptNext ==
    \/ ScriptFirst
    \/ ScriptPage
    \/ ScriptWhileEnd
    \/ ScriptPkg
    \/ ScriptNextPage
    \/ ScriptReturn
    \/ MainFor

(***************************************************************************)
(* The traversal with its calls: iter_datasets and iter_datasets_via_list  *)
(* over _get_json.  Every _package_search, package_list and package_show   *)
(* call of the traversal runs the retry loop of _get_json, and the         *)
(* traversal goes on with what the call returned.                          *)
(***************************************************************************)
MaxCallRetries == 2    \* largest self.retries of the traversing client

notTraverse == <<auditVars, dlVars, csvVars, fileVars, scriptVars>>

\* the traversal stands at a statement that calls _get_json
AtCall ==
    \/ iter.pc = "first"
    \/ iter.pc = "while" /\ iter.start < iter.total
    \/ iter.pc = "list"
    \/ /\ iter.pc = "for_id"
       /\ iter.idx < Len(iter.ids)
       /\ ~LimitReached(iter.limit, iter.list_emitted)

\* what the caller finds in the value _get_json returned: None (all attempts
\* failed, or the body was the JSON text null) is falsy; a payload is looked
\* at for "success" and "result"
Returned(outs) == {o \in outs : (o = "none") <=> (jresult = None)}

\* _get_json has returned: its locals are gone
Forget ==
    /\ jpc' = "idle"
    /\ attempt' = 0
    /\ backoff' = 1
    /\ slept' = 0
    /\ outcomes' = <<>>
    /\ jresult' = None
    /\ UNCHANGED <<jfn, retries, escaped>>

TraverseInit ==
    /\ IterInit
    /\ jfn = "_get_json"
    /\ retries \in 0..MaxCallRetries
    /\ jpc = "idle"
    /\ attempt = 0
    /\ backoff = 1
    /\ slept = 0
    /\ outcomes = <<>>
    /\ jresult = None
    /\ escaped = FALSE

\* self._get_json(path, params) is entered: backoff = 0.5, the for loop starts
GetJson ==
    /\ AtCall
    /\ jpc = "idle"
    /\ jpc' = "for"
    /\ UNCHANGED <<jfn, retries, attempt, backoff, slept, outcomes, jresult, escaped>>
    /\ UNCHANGED notJson

\* first = self._package_search(start=0, rows=1) has returned
TraverseFirst ==
    /\ jpc = "returned"
    /\ \E o \in Returned(SearchOutcomes), c \in 0..(iter.cat + 1) : IterFirstOn(o, c)
    /\ Forget
    /\ UNCHANGED notTraverse

\* payload = self._package_search(start, self.page_size) has returned
TraversePage ==
    /\ jpc = "returned"
    /\ \E o \in Returned(SearchOutcomes) : IterPageOn(o)
    /\ Forget
    /\ UNCHANGED notTraverse

\* listing = self._get_json("/package_list", {}) has returned
TraverseList ==
    /\ jpc = "returned"
    /\ \E o \in Returned(ListOutcomes) : ListFetchOn(o)
    /\ Forget
    /\ UNCHANGED notTraverse

\* data = self._get_json("/package_show", {"id": pkg_id}) has returned
TraverseShow ==
    /\ jpc = "returned"
    /\ \E o \in Returned(ShowOutcomes) : ListShowOn(o)
    /\ Forget
    /\ UNCHANGED notTraverse

\* for pkg_id in ids: if limit is not None and emitted >= limit: return
TraverseListLimit ==
    /\ jpc = "idle"
    /\ LimitReached(iter.limit, iter.list_emitted)
    /\ ListShow

TraverseNext ==
    \/ GetJson
    \/ RequestOk
    \/ RequestFailsQuietly
    \/ RequestRaises
    \/ ReturnNone
    \/ TraverseFirst
    \/ TraversePage
    \/ TraverseList
    \/ TraverseShow
    \/ TraverseListLimit
    \/ IterWhileEnd
    \/ IterPkg
    \/ IterNextPage
    \/ ListEnd

(***************************************************************************)
(* Specifications                                                          *)
(***************************************************************************)
\* audit_dataset on one dataset
Init == AuditInit /\ JsonIdle /\ DlIdle /\ CsvIdle /\ FileIdle /\ IterIdle /\ ScriptIdle
Next == AuditNext
Spec == Init /\ [][Next]_vars

\* audit_dataset, called twice with one dataset descriptor
InitTwice == AuditInitTwice /\ JsonIdle /\ DlIdle /\ CsvIdle /\ FileIdle /\ IterIdle /\ ScriptIdle
SpecTwice == InitTwice /\ [][AuditTwiceNext]_vars

\* one logical JSON call
InitJson == JsonInit /\ AuditIdle /\ DlIdle /\ CsvIdle /\ FileIdle /\ IterIdle /\ ScriptIdle
SpecJson == InitJson /\ [][JsonNext]_vars

\* one download_to_tempfile call
InitDownload == DlInit /\ AuditIdle /\ JsonIdle /\ CsvIdle /\ FileIdle /\ IterIdle /\ ScriptIdle
SpecDownload == InitDownload /\ [][DlNext]_vars

\* one CsvRowCounter.count_rows call
InitCsv == CsvInit /\ AuditIdle /\ JsonIdle /\ DlIdle /\ FileIdle /\ IterIdle /\ ScriptIdle
SpecCsv == InitCsv /\ [][CsvNext]_vars

\* one XlsxRowCounter.count_rows or ZipRowCounter.count_rows call
InitFile == FileInit /\ AuditIdle /\ JsonIdle /\ DlIdle /\ CsvIdle /\ IterIdle /\ ScriptIdle
SpecFile == InitFile /\ [][FileNext]_vars

\* one traversal of the catalog by CKANClient.iter_datasets
InitIter == IterInit /\ AuditIdle /\ JsonIdle /\ DlIdle /\ CsvIdle /\ FileIdle /\ ScriptIdle
SpecIter == InitIter /\ [][IterNext]_vars

\* one run of the zero-argument script
InitScript == ScriptInit /\ AuditIdle /\ JsonIdle /\ DlIdle /\ CsvIdle /\ FileIdle /\ IterIdle
SpecScript == InitScript /\ [][ScriptNext]_vars

\* one traversal of the catalog together with its _get_json calls.  The
\* program is one sequential thread: a statement that can be executed is
\* executed (every request carries a timeout, every sleep is finite)
InitTraverse == TraverseInit /\ AuditIdle /\ DlIdle /\ CsvIdle /\ FileIdle /\ ScriptIdle
SpecTraverse == InitTraverse /\ [][TraverseNext]_vars /\ WF_vars(TraverseNext)

(***************************************************************************)
(* Properties of audit_dataset (specification Spec)                        *)
(***************************************************************************)
FileCounters == {"csv.count_rows", "xlsx.count_rows", "zip.count_rows"}
CounterIdx == {k \in 1..Len(calls) : calls[k].fn \in FileCounters}
AppendIdx == {k \in 1..Len(calls) : calls[k].fn = "counts.append"}
NoCounterCalled == CounterIdx = {}
Rank(fn) == CASE fn = "csv.count_rows" -> 1
              [] fn = "xlsx.count_rows" -> 2
              [] fn = "zip.count_rows" -> 3
Positive(r) == r # None /\ r[1] > 0
\* the current resource went down the url branch and the probe returned p
Probed == cur > 0 /\ calls # <<>> /\ calls[1].fn = "head_content_length"
ProbedLarge == Probed /\ calls[1].ret # None /\ calls[1].ret[1] >= large_threshold
\* the loop body is over for the current resource
ResourceDone == cur > 0 /\ apc \in {"for", "done"}

\* C1 as stated: for a resource whose datastore_active flag is true, whatever
\* its identifier, url and format, no file-based counter is ever invoked.
C1_NoCounterWhenServerIndexed ==
    (cur > 0 /\ res.datastore_active) => NoCounterCalled

\* C1, amended: for a resource whose datastore_active flag is true and whose
\* identifier is present, no file-based counter is ever invoked, whatever its
\* url and format are and whatever the tabular query returns.
C1_NoCounterWhenServerIndexedWithId ==
    (cur > 0 /\ res.datastore_active /\ res.id # NoId) => NoCounterCalled

\* a server-indexed resource with an identifier and a csv url whose tabular
\* query failed has been processed
C1_Witness ==
    /\ ResourceDone
    /\ res.datastore_active /\ res.id # NoId /\ res.url = <<"f", ".csv">>
    /\ csv_counter
    /\ calls = <<Call("get_rows_cols", None)>>

\* C2: with a large-resource sink configured, a resource whose probed content
\* length is known and >= large_threshold has no counter called for it, has
\* exactly one LargeResource record appended (right after the probe, carrying
\* the probed length) and appends nothing to counts.
C2_LargeResourceGated ==
    (large_reporter /\ ProbedLarge) =>
        /\ NoCounterCalled
        /\ AppendIdx = {}
        /\ apc \in {"gate", "for", "done"}
        /\ apc = "gate" => Len(calls) = 1
        /\ apc # "gate" =>
              /\ Len(calls) = 2
              /\ calls[2].fn = "large_reporter.append"
              /\ large # <<>>
              /\ large[Len(large)].content_length = calls[1].ret[1]
              /\ large[Len(large)].resource_id = res.id
              /\ large[Len(large)].url = res.url
              /\ Len(large) <= cur

\* a resource whose content length is exactly the threshold has been gated
C2_Witness ==
    /\ ResourceDone
    /\ large_reporter /\ csv_counter /\ xlsx_counter /\ zip_counter
    /\ calls = <<Call("head_content_length", Some(large_threshold)),
                 Call("large_reporter.append", None)>>
    /\ Len(large) = 1

\* C3: for a resource on the url branch that passes the size gate, with the
\* three counters configured: the counters are called in the order csv, xlsx,
\* zip, each at most once and none before its predecessors; a strictly
\* positive result is appended to counts at once and ends the chain; a zero or
\* None result is followed by the next counter; when none is positive all
\* three were called and nothing is appended.
C3_FallbackChain ==
    (Probed /\ ~ProbedLarge /\ csv_counter /\ xlsx_counter /\ zip_counter) =>
        /\ \A j, k \in CounterIdx : j < k => Rank(calls[j].fn) < Rank(calls[k].fn)
        /\ \A k \in CounterIdx : \A r \in 1..(Rank(calls[k].fn) - 1) :
              \E j \in CounterIdx : j < k /\ Rank(calls[j].fn) = r
        /\ \A k \in CounterIdx : Positive(calls[k].ret) =>
              /\ k + 1 = Len(calls)
              /\ calls[k + 1] = Call("counts.append", calls[k].ret)
        /\ \A k \in AppendIdx :
              /\ k - 1 \in CounterIdx
              /\ Positive(calls[k - 1].ret)
              /\ calls[k].ret = calls[k - 1].ret
              /\ counts # <<>> /\ counts[Len(counts)] = calls[k].ret[1]
        /\ ResourceDone =>
              /\ \E k \in CounterIdx : Rank(calls[k].fn) = 1
              /\ \A k \in CounterIdx :
                    (~Positive(calls[k].ret) /\ Rank(calls[k].fn) < 3) =>
                        (k + 1 \in CounterIdx /\ Rank(calls[k + 1].fn) = Rank(calls[k].fn) + 1)
              /\ (\A k \in CounterIdx : ~Positive(calls[k].ret)) =>
                    (Cardinality(CounterIdx) = 3 /\ AppendIdx = {})

\* csv returned zero, xlsx returned None, zip supplied the contribution
C3_Witness ==
    /\ ResourceDone
    /\ csv_counter /\ xlsx_counter /\ zip_counter
    /\ calls = <<Call("head_content_length", None),
                 Call("csv.count_rows", Some(0)),
                 Call("xlsx.count_rows", None),
                 Call("zip.count_rows", Some(2)),
                 Call("counts.append", Some(2))>>

\* C4: rows_total of the returned DatasetMetrics is the maximum of counts (an
\* element of counts that no element exceeds), and 0 when counts is empty.
C4_RowsTotalIsMax ==
    metrics # None =>
        LET rt == metrics[1].rows_total IN
        /\ counts = <<>> => rt = 0
        /\ counts # <<>> =>
              /\ \E k \in 1..Len(counts) : counts[k] = rt
              /\ \A k \in 1..Len(counts) : counts[k] <= rt

\* two resources contributed different counts; the larger one is reported,
\* not their sum
C4_Witness ==
    /\ metrics # None
    /\ counts = <<2, 1>>
    /\ metrics[1].rows_total = 2

\* C5: each resource appends at most one value to counts.
C5_AtMostOneContribution ==
    /\ Cardinality(AppendIdx) <= 1
    /\ Len(counts) <= cur

\* the csv counter supplied the count of a resource that the zip counter
\* accepts too
C5_Witness ==
    /\ ResourceDone
    /\ csv_counter /\ xlsx_counter /\ zip_counter
    /\ res.format = "zip"
    /\ calls = <<Call("head_content_length", None),
                 Call("csv.count_rows", Some(1)),
                 Call("counts.append", Some(1))>>
    /\ Len(counts) = 2

\* C14: a resource with datastore_active true and an identifier is answered
\* by the tabular query alone: when the query resolves to a row count, exactly
\* that count is appended to counts, and neither the size probe nor a
\* file-based counter is called, even when the resource has a url.
C14_TabularCountAuthoritative ==
    (ResourceDone /\ res.datastore_active /\ res.id # NoId) =>
        /\ calls # <<>>
        /\ calls[1].fn = "get_rows_cols"
        /\ \A k \in 1..Len(calls) :
              calls[k].fn \notin FileCounters \cup {"head_content_length"}
        /\ calls[1].ret # None =>
              /\ calls = <<calls[1], Call("counts.append", calls[1].ret)>>
              /\ counts # <<>>
              /\ counts[Len(counts)] = calls[1].ret[1]

\* a server-indexed resource with a csv url contributed its tabular count
C14_Witness ==
    /\ ResourceDone
    /\ res.datastore_active /\ res.id # NoId /\ res.url = <<"f", ".csv">>
    /\ csv_counter /\ xlsx_counter /\ zip_counter
    /\ calls = <<Call("get_rows_cols", Some(2)), Call("counts.append", Some(2))>>

\* C20: for a resource with datastore_active true and an identifier, the
\* tabular query is made once and the loop then moves to the next resource;
\* when the query failed nothing else is called for the resource (no second
\* query, no size probe, no counter) and nothing is appended to counts.
C20_FailedQuerySkipsResource ==
    (cur > 0 /\ res.datastore_active /\ res.id # NoId /\ apc # "if") =>
        /\ apc \in {"for", "done"}
        /\ Cardinality({k \in 1..Len(calls) : calls[k].fn = "get_rows_cols"}) = 1
        /\ calls[1].ret = None => calls = <<Call("get_rows_cols", None)>>
        /\ calls[1].ret = None => AppendIdx = {}

\* the query of a server-indexed resource with a zip url failed after an
\* earlier resource had contributed; counts is as it was
C20_Witness ==
    /\ ResourceDone
    /\ cur = 2
    /\ res.datastore_active /\ res.id # NoId /\ res.url = <<"f", ".zip">>
    /\ csv_counter /\ xlsx_counter /\ zip_counter
    /\ calls = <<Call("get_rows_cols", None)>>
    /\ counts = <<1>>

\* C13: no failure of a call the auditor makes ends the audit.  Whatever goes
\* wrong in a call (network exception, non-2xx status, malformed payload,
\* oversized content, parse error), no exception leaves audit_dataset; the
\* failed call returned None and is the last thing done for the resource so
\* far (nothing was appended for it); and the DatasetMetrics is returned
\* after the loop, with n_resources the number of resources visited.
C13_NoFailureEndsAudit ==
    /\ apc # "raised"
    /\ (cur > 0 /\ fault # NoFault) =>
          /\ calls # <<>>
          /\ calls[Len(calls)].fn \in FileCounters \cup {"get_rows_cols", "head_content_length"}
          /\ calls[Len(calls)].ret = None
    /\ metrics # None => (apc = "done" /\ Val(metrics).n_resources = cur)

\* two resources were visited and the metrics returned although the archive
\* of the second could not be parsed
C13_Witness ==
    /\ apc = "done"
    /\ cur = 2
    /\ fault = "parse"
    /\ calls[Len(calls)] = Call("zip.count_rows", None)
    /\ counts = <<>>
    /\ metrics = Some([n_resources |-> 2, rows_total |-> 0])

\* C17: head_content_length returns a content length only when requests.head
\* returned a response with a 2xx status and a Content-Length header that is
\* present and all digits, and then the number the header spells; for a
\* non-2xx status, a missing or non-numeric header or a network exception it
\* returns None and raises nothing.  After a None the resource is not
\* reported as large and the first configured counter is called.
C17_HeadLengthOnlyWhenNumeric ==
    /\ hresp # NoResponse =>
          LET r == Val(hresp)
              numeric == /\ r # None
                         /\ Val(r).status_code \in 200..299
                         /\ Val(r).content_length # None
                         /\ isdigit(Val(Val(r).content_length))
          IN /\ apc = "gate"
             /\ (cl # None) <=> numeric
             /\ numeric => Val(cl) = int(Val(Val(r).content_length))
             /\ calls = <<Call("head_content_length", cl)>>
    /\ (ResourceDone /\ Probed /\ calls[1].ret = None) =>
          /\ \A k \in 1..Len(calls) : calls[k].fn # "large_reporter.append"
          /\ csv_counter => (Len(calls) >= 2 /\ calls[2].fn = "csv.count_rows")
          /\ (~csv_counter /\ xlsx_counter) =>
                (Len(calls) >= 2 /\ calls[2].fn = "xlsx.count_rows")
          /\ (~csv_counter /\ ~xlsx_counter /\ zip_counter) =>
                (Len(calls) >= 2 /\ calls[2].fn = "zip.count_rows")

\* a 404 response whose Content-Length spells the threshold: unknown length
C17_Witness ==
    /\ apc = "gate"
    /\ hresp = Some(Some([status_code |-> 404,
                           content_length |->
                               Some(<<"5", "3", "6", "8", "7", "0", "9", "1", "2">>)]))
    /\ cl = None
    /\ large_reporter

(***************************************************************************)
(* Properties of two audits of one descriptor (specification SpecTwice)    *)
(***************************************************************************)
\* C16: when the same descriptor is audited a second time and the environment
\* answers every call as it did the first time, the DatasetMetrics returned
\* by the second audit equals the one returned by the first.
C16_SecondAuditSameMetrics ==
    (run = 2 /\ metrics # None) => metrics = metrics1

\* both audits counted the two rows of a workbook after the csv counter had
\* passed it over
C16_Witness ==
    /\ run = 2
    /\ metrics # None
    /\ metrics1 = Some([n_resources |-> 1, rows_total |-> 2])
    /\ res.url = <<"f", ".xlsx">>
    /\ calls = <<Call("head_content_length", None),
                 Call("csv.count_rows", None),
                 Call("xlsx.count_rows", Some(2)),
                 Call("counts.append", Some(2))>>

(***************************************************************************)
(* Properties of one logical JSON call (specification SpecJson)            *)
(***************************************************************************)
AllFailed == \A k \in 1..Len(outcomes) : outcomes[k] # "ok"

\* C6: the call issues at most retries requests, none after a successful
\* one; when all retries requests failed it returns None; no exception leaves
\* the function.
C6_BoundedAttempts ==
    /\ Len(outcomes) <= retries
    /\ attempt = Len(outcomes)
    /\ \A k \in 1..(Len(outcomes) - 1) : outcomes[k] # "ok"
    /\ (outcomes # <<>> /\ outcomes[Len(outcomes)] = "ok") => jpc = "returned"
    /\ (jpc = "returned" /\ AllFailed) => (jresult = None /\ Len(outcomes) = retries)
    /\ ~escaped
    /\ jpc \in {"for", "returned"}

\* three attempts failed in three different ways and the call returned None
C6_Witness ==
    /\ jpc = "returned"
    /\ retries = 3
    /\ outcomes = <<"non200", "get_raises", "json_raises">>
    /\ jresult = None

\* the backoff sequence 0.5, 1.0, 2.0, ... summed over k retries, in units of 0.5
RECURSIVE BackoffSum(_)
BackoffSum(k) == IF k <= 0 THEN 0 ELSE 2 ^ (k - 1) + BackoffSum(k - 1)

\* C7: when all retries attempts failed, each by a network exception or a
\* non-200 status, the time slept before the call returns is at least the sum
\* of the backoff sequence over its retries - 1 retries.
C7_BackoffSlept ==
    (/\ jpc = "returned"
     /\ Len(outcomes) = retries
     /\ \A k \in 1..Len(outcomes) : outcomes[k] \in {"get_raises", "non200"})
    => slept >= BackoffSum(retries - 1)

(***************************************************************************)
(* Properties of download_to_tempfile (specification SpecDownload)         *)
(***************************************************************************)
\* C8: the temporary file never holds more than max_bytes bytes; once the
\* running total exceeds max_bytes the file is deleted and None is returned;
\* a returned path names a file that holds the whole body, of at most
\* max_bytes bytes.
C8_DownloadWithinCap ==
    /\ dfile # None => dfile[1] <= dmax
    /\ dtotal > dmax => (dfile = None /\ dresult = "none" /\ dpc = "returned")
    /\ dresult = "path" => (dfile # None /\ dfile[1] = dbody /\ dbody <= dmax)
    /\ (dpc = "returned" /\ dbody > dmax) => dresult = "none"

\* a body that fills the cap exactly, delivered in several chunks, is returned
C8_Witness ==
    /\ dresult = "path"
    /\ dmax = 3 /\ dbody = 3 /\ dchunk = 2
    /\ dfile = Some(3)

\* C24: whenever download_to_tempfile returns None, no temporary file created
\* by the call is left on disk: when the cap was exceeded, when the request
\* failed before a file was created, and when the stream or a write failed
\* after the file had been created and partly written.
C24_NothingLeftOnNone ==
    dresult = "none" => dfile = None

(***************************************************************************)
(* Properties of CsvRowCounter.count_rows (specification SpecCsv)          *)
(***************************************************************************)
\* C9: a body longer than max_bytes never yields a count, whatever the
\* chunking and whatever HEAD said: a count is returned only once the whole
\* body was read and was within the cap; a body within the cap never trips
\* the cap, and a stream that runs to its end returns a count.
C9_OverCapUncountable ==
    /\ cresult # None => (cpc = "ret_lines" /\ csent = Len(cbody) /\ Len(cbody) <= cmax)
    /\ (CsvReturned /\ Len(cbody) > cmax) => cresult = None
    /\ Len(cbody) > cmax => cpc # "ret_lines"
    /\ Len(cbody) <= cmax => cpc # "ret_cap"
    /\ cpc = "ret_lines" => cresult # None

\* the excess was found mid-stream, after lines had been counted, with the
\* content length unknown in advance
C9_Witness ==
    /\ cpc = "ret_cap"
    /\ ccl = None
    /\ Len(cbody) = cmax + 1
    /\ lines > 0
    /\ cresult = None

\* C18: the body is requested at most once, and only when the HEAD content
\* length is unknown or at most max_bytes; when it is known and over
\* max_bytes the counter returns None without any GET.
C18_NoGetWhenHeadOverCap ==
    /\ cgets <= 1
    /\ cgets > 0 => (cheads = 1 /\ (ccl = None \/ ccl[1] <= cmax))
    /\ (cheads > 0 /\ ccl # None /\ ccl[1] > cmax) =>
          (cpc = "ret_head" /\ cgets = 0 /\ cresult = None)

\* HEAD announced more than the cap for a body that is within it: no GET
C18_Witness ==
    /\ cpc = "ret_head"
    /\ ccl = Some(cmax + 1)
    /\ Len(cbody) <= cmax
    /\ cbody # <<>>
    /\ cgets = 0

\* the rows of a whole body: its newline bytes, plus one when it is not empty
\* and does not end in a newline
Rows(body) ==
    Cardinality({k \in 1..Len(body) : body[k] = "\n"})
        + (IF body # <<>> /\ body[Len(body)] # "\n" THEN 1 ELSE 0)

\* C10: the count returned for a body within the cap is the number of its
\* newline bytes, plus 1 if it is not empty and does not end in a newline (0
\* for the empty body), whatever the chunking: "a\na\n" -> 2, "a\na" -> 2,
\* "" -> 0.
C10_CountsRows ==
    cpc = "ret_lines" =>
        /\ cresult = Some(Rows(cbody))
        /\ cbody = <<"a", "\n", "a", "\n">> => cresult = Some(2)
        /\ cbody = <<"a", "\n", "a">> => cresult = Some(2)
        /\ cbody = <<>> => cresult = Some(0)

\* a body without a trailing newline was counted from three one-byte chunks
C10_Witness ==
    /\ cpc = "ret_lines"
    /\ cchunk = 1
    /\ cbody = <<"a", "\n", "a">>
    /\ cresult = Some(2)

\* the path of a url ends in .csv, case-insensitively: what follows the first
\* "?" is the query, not the path
PathEndsCsv(url) == url # NoUrl /\ endswith(beforeQuery(lower(url)), ".csv")

\* C21: the counter is applicable exactly when the path of the url ends in
\* .csv (case-insensitive), a query suffix not being part of the path; for an
\* inapplicable url count_rows returns None without any HEAD or GET request.
C21_ApplicableByPath ==
    /\ cpc # "start" => (cpc = "ret_not_csv" <=> ~PathEndsCsv(curl))
    /\ cpc = "ret_not_csv" => (cheads = 0 /\ cgets = 0 /\ cresult = None)

(***************************************************************************)
(* Properties of the download-then-parse counters (specification SpecFile) *)
(***************************************************************************)
\* C11: when ZipRowCounter.count_rows has opened the downloaded archive, it
\* has visited exactly the entries whose lowercased name ends in .csv, and it
\* returns the sum of their line counts, where an entry larger than
\* per_file_max_bytes or one that fails to read adds nothing while the others
\* still count; it returns None when no name ends in .csv or the sum is zero.
C11_ZipSumsCsvEntries ==
    (file.kind = "zip" /\ file.pc = "done" /\ file.exit \in {"no_names", "rows"}) =>
        LET csvIdx == {i \in 1..Len(file.namelist) :
                          file.namelist[i][Len(file.namelist[i])] \in {".csv", ".CSV"}}
        IN /\ file.seen = Cardinality(csvIdx)
           /\ file.result = IF csvIdx = {} \/ file.expect = 0
                             THEN None ELSE Some(file.expect)

\* two .csv entries, one of them over its cap: the other one's line is the result
C11_Witness ==
    /\ file.kind = "zip"
    /\ file.pc = "done"
    /\ file.exit = "rows"
    /\ file.seen = 2
    /\ file.over = 1
    /\ file.result = Some(1)

IsOk(e) == e.ok
\* the ids of the package_show calls that succeeded, in call order
OkIds(log) == [k \in 1..Len(SelectSeq(log, IsOk)) |-> SelectSeq(log, IsOk)[k].id]

C22_AtMostLimitYielded ==
    iter.limit # None => Len(iter.yielded) <= Val(iter.limit)

\* C23: over one traversal of a catalog whose datasets have distinct
\* identifiers each dataset is yielded at most once, whatever page fetches
\* succeed or fail; after a page failure the id-list traversal covers only
\* the datasets not yet yielded.
C23_EachDatasetOnce ==
    \A j, k \in 1..Len(iter.yielded) : j # k => iter.yielded[j] # iter.yielded[k]

(***************************************************************************)
(* Properties of the zero-argument script (specification SpecScript)       *)
(***************************************************************************)
\* C19: iterate_packages yields every package of every page it fetched, in
\* page order, and main writes one CSV row for each of them.
C19_YieldsEveryPackage ==
    (script.pc \in {"done", "type_error"}) =>
        /\ script.yielded = script.fetched
        /\ script.written = script.fetched
(***************************************************************************)
(* Properties of the traversal with its calls (specification SpecTraverse) *)
(***************************************************************************)
Terminated == iter.pc \in {"done", "raised"} /\ jpc = "idle"

\* C25: for a finite catalog and page_size >= 1 the traversal terminates
\* under every sequence of endpoint responses: the generator ends; every
\* _get_json call makes at most retries attempts; the paged loop fetches a
\* page only below the reported total and its offset strictly increases from
\* page to page; an empty page ends the traversal and a failed page ends the
\* paged loop for good; the id-list traversal takes each id once, in order.
C25_TraversalTerminates ==
    /\ <>Terminated
    /\ [](Len(outcomes) <= retries)
    /\ [][(iter.pc = "for_pkg" /\ iter'.pc = "while") =>
             (iter.start < iter.total /\ iter'.start > iter.start)]_vars
    /\ [][(iter.pc = "while" /\ iter'.pc # "while") =>
             (iter.start < iter.total => jpc = "returned")]_vars
    /\ [][(iter.pc = "while" /\ iter'.pc = "done" /\ iter.start < iter.total) =>
             iter'.results = <<>>]_vars
    /\ [](iter.via = "page_failed" => iter.pc \in {"list", "for_id", "done", "raised"})
    /\ [][iter'.idx # iter.idx =>
             (iter.pc = "list" /\ iter'.idx = 0) \/ iter'.idx = iter.idx + 1]_vars
    /\ [](iter.idx <= Len(iter.ids))

\* with two attempts allowed per call, the second page could not be fetched,
\* the id list was walked to its end and the generator is over
C25_Witness ==
    /\ Terminated
    /\ iter.pc = "done"
    /\ retries = 2
    /\ iter.via = "page_failed"
    /\ iter.start > 0
    /\ iter.idx = Len(iter.ids)
    /\ iter.idx = 3

====
